---- MODULE Spec2Model ----
(***************************************************************************)
(* Asset Dependency Reasoner (Content/Python/adr): the bounded breadth-    *)
(* first dependency graph builder, the path explainer, the tree projector  *)
(* and the policy engine, modelled as a state machine, with the entry      *)
(* points analyze_selected and run_preflight that start a build.           *)
(*                                                                         *)
(* Strings that the code parses (asset paths, package names) are sequences *)
(* of one-character strings; strings the code only builds and compares     *)
(* (reasons, flags, kinds) are TLA+ strings.                               *)
(***************************************************************************)
EXTENDS Integers, Sequences, FiniteSets, TLC

VARIABLES
    root_object,    \* build_dependency_graph: root_object
    root_package,   \* build_dependency_graph: root_package
    max_depth,      \* argument max_depth
    max_nodes,      \* argument max_nodes
    nodes,          \* dict package -> node record
    edges,          \* list of edge records
    parents,        \* dict child package -> parent package
    edge_by_child,  \* dict child package -> edge record
    truncated,      \* truncated flag
    visited,        \* set of packages
    queue,          \* deque of <<package, depth>>
    current,        \* loop local: package being expanded
    depth,          \* loop local: its depth
    hard,           \* loop local: hard list the lookup returned
    soft,           \* loop local: soft list the lookup returned
    deps,           \* items of the deps dict not yet iterated
    pc,             \* position in build_dependency_graph
    op,             \* operation applied to the returned graph
    target,         \* explain_path: argument target_package
    steps,          \* explain_path: result
    violations,     \* evaluate_policies: result
    stack,          \* build_tree_hierarchy: build_node call stack
    tree,           \* build_tree_hierarchy: result
    registry,       \* the project the dependency source serves
    answered,       \* the other packages the source has named, per package asked
    selected,       \* object paths of the Content Browser selection
    entry,          \* the entry point in progress
    findings,       \* run_preflight: findings so far
    result,         \* analyze_selected, check_dependency_policies: result
    report,         \* run_preflight: returned PreflightReport
    unused_limit,   \* run_preflight: argument unused_limit
    raw_path,       \* asset_path_to_object_path: a raw path
    normalized      \* its successive normal forms

vars == <<root_object, root_package, max_depth, max_nodes, nodes, edges,
          parents, edge_by_child, truncated, visited, queue, current, depth,
          hard, soft, deps, pc, op, target, steps, violations, stack, tree,
          registry, answered, selected, entry, findings, result, report,
          unused_limit, raw_path, normalized>>

callerVars ==
    <<selected, entry, findings, result, report, unused_limit, raw_path,
      normalized>>

graphVars == <<root_object, root_package, max_depth, max_nodes, nodes, edges,
               parents, edge_by_child, truncated, visited, queue, current,
               depth, hard, soft, deps, pc, registry, answered>>

-----------------------------------------------------------------------------
(* Bounds of the model *)

MaxDepthBound == 2      \* max_depth ranges over 0..MaxDepthBound
MaxNodesBound == 2      \* max_nodes is in 1..MaxNodesBound or the default
MaxDeps == 1            \* longest hard or soft list the source returns
RecursionLimit == 5     \* deepest build_node call chain before RecursionError
MaxRawLen == 3          \* longest raw path handed to the normalizer alone

\* min(S)
Min(S) == CHOOSE x \in S : \A y \in S : x <= y

-----------------------------------------------------------------------------
(* Python string operations on sequences of characters *)

\* the characters str.strip() removes (those with str.isspace()): tab, line
\* feed, vertical tab, form feed, carriage return, U+001C..U+001F, space,
\* U+0085, U+00A0, U+1680; the spaces U+2000..U+3000 cannot be written in a
\* string of a module
Whitespace ==
    {"\t", "\n", "", "\f", "\r", "", "",
     "", "", " ", "", " ", " "}

RECURSIVE LStrip(_)
\* s.lstrip()
LStrip(s) == IF s # <<>> /\ Head(s) \in Whitespace THEN LStrip(Tail(s)) ELSE s

RECURSIVE RStrip(_)
\* s.rstrip()
RStrip(s) ==
    IF s # <<>> /\ s[Len(s)] \in Whitespace
    THEN RStrip(SubSeq(s, 1, Len(s) - 1)) ELSE s

\* s.strip()
Strip(s) == RStrip(LStrip(s))

\* c.lower() for one character: the ASCII capitals (no other character
\* lowers to one of ".umap", the only suffix lowered text is tested for)
UpperCase ==
    <<"A", "B", "C", "D", "E", "F", "G", "H", "I", "J", "K", "L", "M",
      "N", "O", "P", "Q", "R", "S", "T", "U", "V", "W", "X", "Y", "Z">>
LowerCase ==
    <<"a", "b", "c", "d", "e", "f", "g", "h", "i", "j", "k", "l", "m",
      "n", "o", "p", "q", "r", "s", "t", "u", "v", "w", "x", "y", "z">>
LowerChar(c) ==
    IF \E i \in 1..Len(UpperCase) : UpperCase[i] = c
    THEN LowerCase[CHOOSE i \in 1..Len(UpperCase) : UpperCase[i] = c]
    ELSE c

\* s.lower()
Lower(s) == [i \in 1..Len(s) |-> LowerChar(s[i])]

\* s.endswith(suf)
EndsWith(s, suf) ==
    Len(s) >= Len(suf) /\ SubSeq(s, Len(s) - Len(suf) + 1, Len(s)) = suf

HasChar(s, c) == \E i \in 1..Len(s) : s[i] = c

\* 1-based position of the first / last c in s (s contains c)
Find(s, c) == CHOOSE i \in 1..Len(s) : s[i] = c /\ \A j \in 1..(i - 1) : s[j] # c
RFind(s, c) == CHOOSE i \in 1..Len(s) : s[i] = c /\ \A j \in (i + 1)..Len(s) : s[j] # c

Contains(s, sub) ==
    \E i \in 1..(Len(s) - Len(sub) + 1) : SubSeq(s, i, i + Len(sub) - 1) = sub

StartsWith(s, pre) == Len(s) >= Len(pre) /\ SubSeq(s, 1, Len(pre)) = pre

\* s.split("/")[-1]
LastSegment(s) ==
    IF HasChar(s, "/") THEN SubSeq(s, RFind(s, "/") + 1, Len(s)) ELSE s

\* s.split(".", 1)[0]
BeforeFirstDot(s) ==
    IF HasChar(s, ".") THEN SubSeq(s, 1, Find(s, ".") - 1) ELSE s

-----------------------------------------------------------------------------
(* Path normalizer *)

asset_path_to_object_path(asset_path) ==
    IF asset_path = <<>> THEN asset_path
    ELSE
        LET s1 == Strip(asset_path)
            s2 == IF HasChar(s1, "'") /\ s1[Len(s1)] = "'"
                  THEN SubSeq(s1, Find(s1, "'") + 1, RFind(s1, "'") - 1)
                  ELSE s1
        IN  IF ~HasChar(s2, ".") THEN s2 \o <<".">> \o LastSegment(s2) ELSE s2

object_path_to_package_name(object_path) ==
    BeforeFirstDot(asset_path_to_object_path(object_path))

-----------------------------------------------------------------------------
(* Package names and markers *)

GameA == <<"/", "G", "a", "m", "e", "/", "A">>
GameB == <<"/", "G", "a", "m", "e", "/", "B">>
TestC == <<"/", "T", "e", "s", "t", "/", "C">>
DebugD == <<"/", "D", "e", "b", "u", "g", "/", "D">>

Packages == {GameA, GameB, TestC, DebugD}

\* A project: for each package of the asset registry, the packages it may
\* reference. The dependency source answers a lookup for p with lists over
\* the project's entry for p.
FullProject(U) == [p \in U |-> U]

DiamondProject ==
    (GameA :> {GameB, TestC}) @@ (GameB :> {DebugD, TestC})
        @@ (TestC :> {DebugD}) @@ (DebugD :> {GameA})

\* the projects the runs are made against
Registries ==
    { FullProject({GameA, GameB, TestC}),
      FullProject({GameA, TestC, DebugD}),
      DiamondProject }

\* The project of the Foo / Bar / Baz scenario
Foo == <<"/", "G", "a", "m", "e", "/", "F", "o", "o", "/", "F", "o", "o">>
Bar == <<"/", "G", "a", "m", "e", "/", "B", "a", "r", "/", "B", "a", "r">>
Baz == <<"/", "E", "d", "i", "t", "o", "r", "/", "D", "e", "v", "/", "B", "a", "z">>

ScenarioProject == (Foo :> {Bar}) @@ (Bar :> {Baz}) @@ (Baz :> {})

EDITOR_ONLY_MARKERS ==
    { <<"/", "E", "d", "i", "t", "o", "r", "/">>,
      <<"/", "D", "e", "v", "e", "l", "o", "p", "e", "r", "s", "/">>,
      <<"/", "T", "e", "s", "t", "/">>,
      <<"/", "D", "e", "b", "u", "g", "/">> }

GamePrefix == <<"/", "G", "a", "m", "e", "/">>

MAX_DEFAULT_NODES == 400

\* adr_entry: the depth analyze_selected passes as max_depth by default
DEFAULT_DEPTH == 4

\* preflight_core: limits of run_preflight
DEFAULT_MAX_DEPTH == 4
DEFAULT_MAX_NODES == 600
DEFAULT_UNUSED_SCAN_LIMIT == 3000

is_editor_only_suspected(path) ==
    \E marker \in EDITOR_ONLY_MARKERS : Contains(path, marker)

-----------------------------------------------------------------------------
(* Dependency classifier *)

\* variant: the suffix is appended from depth 1 on
classify_dependency_suffix_early(root_pkg, from_package, to_package, dep_kind, d) ==
    LET reason0 == IF dep_kind = "Soft" THEN "Soft Reference (optional)"
                   ELSE "Hard Runtime Reference"
        editor == is_editor_only_suspected(to_package)
        reason1 == IF editor THEN "Editor-only Suspected" ELSE reason0
        flags1 == IF editor THEN <<"editor_only">> ELSE <<>>
        flags2 == IF StartsWith(root_pkg, GamePrefix) /\ editor
                  THEN Append(flags1, "suspicious") ELSE flags1
        reason2 == IF d >= 1 THEN reason1 \o " (Transitive)" ELSE reason1
    IN  [reason |-> reason2, flags |-> flags2]

classify_dependency(root_pkg, from_package, to_package, dep_kind, d) ==
    LET reason0 == IF dep_kind = "Soft" THEN "Soft Reference (optional)"
                   ELSE "Hard Runtime Reference"
        editor == is_editor_only_suspected(to_package)
        reason1 == IF editor THEN "Editor-only Suspected" ELSE reason0
        flags1 == IF editor THEN <<"editor_only">> ELSE <<>>
        flags2 == IF StartsWith(root_pkg, GamePrefix) /\ editor
                  THEN Append(flags1, "suspicious") ELSE flags1
        reason2 == IF d > 1 THEN reason1 \o " (Transitive)" ELSE reason1
    IN  [reason |-> reason2, flags |-> flags2]

-----------------------------------------------------------------------------
(* Dependency source (unreal asset registry) and class lookup *)

\* Lists of at most n distinct packages of the set reg
ListsUpTo(reg, n) ==
    { l \in UNION { [1..k -> reg] : k \in 0..n } :
        \A i, j \in 1..Len(l) : i # j => l[i] # l[j] }

\* registry.get_dependencies returns a list or None (none = TRUE)
NoneResult == [none |-> TRUE, list |-> <<>>]
LookupResults(reg) ==
    { [none |-> FALSE, list |-> l] : l \in ListsUpTo(reg, MaxDeps) } \cup {NoneResult}

\* One call of _get_dependencies_hard_soft: the two lookups, or an exception
\* raised by the registry calls (raises = TRUE), which nothing there catches.
Answers(reg) ==
    [raises : {FALSE}, hard : LookupResults(reg), soft : LookupResults(reg)]
        \cup {[raises |-> TRUE, hard |-> NoneResult, soft |-> NoneResult]}

\* The scenario project is served exactly: Foo has the hard dependency Bar,
\* Bar the soft dependency Baz, Baz none.
ScenarioSource ==
    (Foo :> [raises |-> FALSE,
             hard |-> [none |-> FALSE, list |-> <<Bar>>],
             soft |-> [none |-> FALSE, list |-> <<>>]])
    @@ (Bar :> [raises |-> FALSE,
                hard |-> [none |-> FALSE, list |-> <<>>],
                soft |-> [none |-> FALSE, list |-> <<Baz>>]])
    @@ (Baz :> [raises |-> FALSE,
                hard |-> [none |-> FALSE, list |-> <<>>],
                soft |-> [none |-> FALSE, list |-> <<>>]])

\* what _get_dependencies_hard_soft(p) can answer in project reg
SourceAnswers(reg, p) ==
    IF reg = ScenarioProject THEN {ScenarioSource[p]} ELSE Answers(reg[p])

\* the packages other than p that an answer about p names, in either list
Named(ans, p) ==
    ({ans.hard.list[i] : i \in 1..Len(ans.hard.list)}
        \cup {ans.soft.list[i] : i \in 1..Len(ans.soft.list)}) \ {p}

\* `x or []`
OrEmpty(x) == IF x.none THEN <<>> ELSE x.list

\* asset.get_path_name() of the asset of a package
ObjectPathOf(pkg) == pkg \o <<".">> \o LastSegment(pkg)

\* The editor's asset data, by object path: the class name under
\* asset_class_path.asset_name, or data that has no asset_class_path (Bar).
\* The other assets have no data (the lookup returns None or raises).
AssetData ==
    (ObjectPathOf(GameA) :> [has_class |-> TRUE, class |-> "Blueprint"])
    @@ (ObjectPathOf(TestC) :> [has_class |-> TRUE, class |-> "Texture2D"])
    @@ (ObjectPathOf(DebugD) :> [has_class |-> TRUE, class |-> "Material"])
    @@ (ObjectPathOf(Bar) :> [has_class |-> FALSE, class |-> ""])

\* unreal.EditorAssetLibrary.find_asset_data(object_path); found = FALSE: None
find_asset_data(object_path) ==
    IF object_path \in DOMAIN AssetData
    THEN [found |-> TRUE, has_class |-> AssetData[object_path].has_class,
          class |-> AssetData[object_path].class]
    ELSE [found |-> FALSE, has_class |-> FALSE, class |-> ""]

\* get_asset_class_name: the class of the asset data found for the
\* normalized path, or "Unknown"
get_asset_class_name(path) ==
    LET ad == find_asset_data(asset_path_to_object_path(path))
    IN  IF ad.found /\ ad.has_class THEN ad.class ELSE "Unknown"

\* variant: the hard list is dropped
HardItemsNone(hs, acc) == acc

RECURSIVE HardItems(_, _)
\* {d: "Hard" for d in hard}, as the ordered item list of the dict
HardItems(hs, acc) ==
    IF hs = <<>> THEN acc
    ELSE HardItems(Tail(hs),
            IF \E i \in 1..Len(acc) : acc[i].dep = Head(hs) THEN acc
            ELSE Append(acc, [dep |-> Head(hs), kind |-> "Hard"]))

RECURSIVE SoftItemsAppend(_, _)
\* variant: deps is a list of pairs, every soft item is appended
SoftItemsAppend(ss, acc) ==
    IF ss = <<>> THEN acc
    ELSE SoftItemsAppend(Tail(ss), Append(acc, [dep |-> Head(ss), kind |-> "Soft"]))

RECURSIVE SoftItemsOverride(_, _)
\* variant: deps[d] = "Soft" replaces the kind of a key the hard list set
SoftItemsOverride(ss, acc) ==
    IF ss = <<>> THEN acc
    ELSE SoftItemsOverride(Tail(ss),
            IF \E i \in 1..Len(acc) : acc[i].dep = Head(ss)
            THEN [i \in 1..Len(acc) |->
                    IF acc[i].dep = Head(ss)
                    THEN [dep |-> Head(ss), kind |-> "Soft"] ELSE acc[i]]
            ELSE Append(acc, [dep |-> Head(ss), kind |-> "Soft"]))

RECURSIVE SoftItems(_, _)
\* for d in soft: deps.setdefault(d, "Soft")
SoftItems(ss, acc) ==
    IF ss = <<>> THEN acc
    ELSE SoftItems(Tail(ss),
            IF \E i \in 1..Len(acc) : acc[i].dep = Head(ss) THEN acc
            ELSE Append(acc, [dep |-> Head(ss), kind |-> "Soft"]))

DepsDict(hs, ss) == SoftItems(ss, HardItems(hs, <<>>))

-----------------------------------------------------------------------------
(* Graph builder *)

\* variant: the node is created without the editor_only test
ensure_node_plain(ns, pkg) ==
    IF pkg \notin DOMAIN ns
    THEN ns @@ (pkg :> [package |-> pkg,
                        class |-> get_asset_class_name(pkg),
                        flags |-> <<>>])
    ELSE ns

ensure_node(ns, pkg) ==
    IF pkg \notin DOMAIN ns
    THEN ns @@ (pkg :> [package |-> pkg,
                        class |-> get_asset_class_name(pkg),
                        flags |-> IF is_editor_only_suspected(pkg)
                                  THEN <<"editor_only">> ELSE <<>>])
    ELSE ns

\* variant: the self-reference test is missing
IsSelfReferenceNever(dep, cur) == FALSE

\* if dep == current: continue
IsSelfReference(dep, cur) == dep = cur

\* variant: the last discoverer overwrites the parent
RecordParentLast(par, dep, cur) ==
    [p \in DOMAIN par \cup {dep} |-> IF p = dep THEN cur ELSE par[p]]

\* if dep not in parents: parents[dep] = current
RecordParent(par, dep, cur) ==
    IF dep \notin DOMAIN par THEN par @@ (dep :> cur) ELSE par

\* variant: the last edge into dep replaces the entry
RecordEdgeByChildLast(ebc, par, dep, edge) ==
    [p \in DOMAIN ebc \cup {dep} |-> IF p = dep THEN edge ELSE ebc[p]]

\* if dep not in parents: edge_by_child[dep] = edge
RecordEdgeByChild(ebc, par, dep, edge) ==
    IF dep \notin DOMAIN par THEN ebc @@ (dep :> edge) ELSE ebc

\* variant: the item is inspected but left at the head of the queue
QueueAfterSkipPeek(q) == q

\* queue after `continue` on depth >= max_depth (the item was popped)
QueueAfterSkip(q) == Tail(q)

\* variant: the depth test lets a package at max_depth expand
DepthLimitExceeded(d, md) == d > md

\* if depth >= max_depth: continue
DepthLimitReached(d, md) == d >= md

\* variant: the node test fires one node late
NodeCapExceeded(n, mn) == n > mn

\* if len(nodes) >= max_nodes: truncated = True; break
NodeCapReached(n, mn) == n >= mn

\* variant: every dependency is enqueued, visited or not
AlreadyVisitedNever(vis, dep) == FALSE

\* `if dep not in visited` guards the enqueue
AlreadyVisited(vis, dep) == dep \in vis

\* variant: a dependency is given the depth of the package that names it
NextDepthSame(d) == d

\* `depth + 1`: the depth of an edge and of the package it discovers
NextDepth(d) == d + 1

\* raw root paths handed to build_dependency_graph
RawRoots ==
    { GameA,
      <<"'">> \o GameA \o <<".", "A", "'">>,
      TestC }

\* build_dependency_graph called directly: no entry point, no selection
NoCaller ==
    /\ selected = <<>>
    /\ entry = "direct"
    /\ findings = <<>>
    /\ result = <<>>
    /\ report = <<>>
    /\ unused_limit = 0
    /\ raw_path = <<>>
    /\ normalized = <<>>

\* the state at the head of the first loop iteration of
\* build_dependency_graph(raw, md, mn) in project reg
Start(raw, md, mn, reg) ==
    /\ registry = reg
    /\ answered = <<>>
    /\ root_object = asset_path_to_object_path(raw)
    /\ root_package = object_path_to_package_name(root_object)
    /\ max_depth = md
    /\ max_nodes = mn
    /\ nodes = ensure_node(<<>>, root_package)
    /\ edges = <<>>
    /\ parents = <<>>
    /\ edge_by_child = <<>>
    /\ truncated = FALSE
    /\ visited = {root_package}
    /\ queue = << <<root_package, 0>> >>
    /\ current = <<>>
    /\ depth = 0
    /\ hard = <<>>
    /\ soft = <<>>
    /\ deps = <<>>
    /\ pc = "loop"
    /\ op = "none"
    /\ target = <<>>
    /\ steps = <<>>
    /\ violations = <<>>
    /\ stack = <<>>
    /\ tree = <<>>
    /\ NoCaller

Init ==
    \/ \E raw \in RawRoots, md \in 0..MaxDepthBound,
          mn \in (1..MaxNodesBound) \cup {MAX_DEFAULT_NODES},
          reg \in Registries :
            Start(raw, md, mn, reg)
    \/ Start(Foo, DEFAULT_DEPTH, MAX_DEFAULT_NODES, ScenarioProject)

postVars == <<op, target, steps, violations, stack, tree>>

\* while queue: (queue empty) -> fall through to the return
LoopExit ==
    /\ pc = "loop"
    /\ queue = <<>>
    /\ pc' = "returned"
    /\ UNCHANGED <<root_object, root_package, max_depth, max_nodes, nodes,
                   edges, parents, edge_by_child, truncated, visited, queue,
                   current, depth, hard, soft, deps, registry, answered>>
    /\ UNCHANGED postVars
    /\ UNCHANGED callerVars

\* popleft; if depth >= max_depth: continue
SkipDeep ==
    /\ pc = "loop"
    /\ queue # <<>>
    /\ DepthLimitReached(Head(queue)[2], max_depth)
    /\ current' = Head(queue)[1]
    /\ depth' = Head(queue)[2]
    /\ queue' = QueueAfterSkip(queue)
    /\ UNCHANGED <<root_object, root_package, max_depth, max_nodes, nodes,
                   edges, parents, edge_by_child, truncated, visited, hard,
                   soft, deps, pc, registry, answered>>
    /\ UNCHANGED postVars
    /\ UNCHANGED callerVars

\* popleft; if len(nodes) >= max_nodes: truncated = True; break
Truncate ==
    /\ pc = "loop"
    /\ queue # <<>>
    /\ ~DepthLimitReached(Head(queue)[2], max_depth)
    /\ NodeCapReached(Cardinality(DOMAIN nodes), max_nodes)
    /\ current' = Head(queue)[1]
    /\ depth' = Head(queue)[2]
    /\ queue' = Tail(queue)
    /\ truncated' = TRUE
    /\ pc' = "returned"
    /\ UNCHANGED <<root_object, root_package, max_depth, max_nodes, nodes,
                   edges, parents, edge_by_child, visited, hard, soft, deps,
                   registry, answered>>
    /\ UNCHANGED postVars
    /\ UNCHANGED callerVars

\* popleft; hard, soft = _get_dependencies_hard_soft(current); deps = {...}
\* (an expansion that raises leaves pc = "raised")
Expand ==
    /\ pc = "loop"
    /\ queue # <<>>
    /\ ~DepthLimitReached(Head(queue)[2], max_depth)
    /\ ~NodeCapReached(Cardinality(DOMAIN nodes), max_nodes)
    /\ current' = Head(queue)[1]
    /\ depth' = Head(queue)[2]
    /\ queue' = Tail(queue)
    /\ \E ans \in SourceAnswers(registry, Head(queue)[1]) :
        IF ans.raises
        THEN /\ pc' = "raised"
             /\ UNCHANGED <<hard, soft, deps, answered>>
        ELSE /\ hard' = OrEmpty(ans.hard)
             /\ soft' = OrEmpty(ans.soft)
             /\ answered' = (Head(queue)[1] :> Named(ans, Head(queue)[1]))
                                @@ answered
             /\ deps' = DepsDict(hard', soft')
             /\ pc' = IF deps' = <<>> THEN "loop" ELSE "for"
    /\ UNCHANGED <<root_object, root_package, max_depth, max_nodes, nodes,
                   edges, parents, edge_by_child, truncated, visited, registry>>
    /\ UNCHANGED postVars
    /\ UNCHANGED callerVars

\* one iteration of `for dep, kind in deps.items()`
ForDep ==
    /\ pc = "for"
    /\ deps # <<>>
    /\ LET dep == Head(deps).dep
           kind == Head(deps).kind
           cl == classify_dependency(root_package, current, dep, kind,
                                     NextDepth(depth))
           edge == [from |-> current, to |-> dep, dep_type |-> kind,
                    reason |-> cl.reason, flags |-> cl.flags,
                    depth |-> NextDepth(depth)]
       IN  IF IsSelfReference(dep, current)
           THEN UNCHANGED <<nodes, edges, parents, edge_by_child, visited, queue>>
           ELSE /\ nodes' = ensure_node(nodes, dep)
                /\ edges' = Append(edges, edge)
                /\ parents' = RecordParent(parents, dep, current)
                /\ edge_by_child' = RecordEdgeByChild(edge_by_child, parents, dep, edge)
                /\ visited' = visited \cup {dep}
                /\ queue' = IF ~AlreadyVisited(visited, dep)
                            THEN Append(queue, <<dep, NextDepth(depth)>>)
                            ELSE queue
    /\ deps' = Tail(deps)
    /\ pc' = IF deps' = <<>> THEN "loop" ELSE "for"
    /\ UNCHANGED <<root_object, root_package, max_depth, max_nodes, truncated,
                   current, depth, hard, soft, registry, answered>>
    /\ UNCHANGED postVars
    /\ UNCHANGED callerVars

BuildNext == LoopExit \/ SkipDeep \/ Truncate \/ Expand \/ ForDep

\* sum(1 for e in edges if e["dep_type"] == kind)
EdgesOfType(es, kind) == Cardinality({ i \in 1..Len(es) : es[i].dep_type = kind })

\* stats computed at the return
stats ==
    [node_count |-> Cardinality(DOMAIN nodes),
     edge_count |-> Len(edges),
     editor_only_suspected |->
        Cardinality({ p \in DOMAIN nodes :
            \E i \in 1..Len(nodes[p].flags) : nodes[p].flags[i] = "editor_only" }),
     soft_edges |-> EdgesOfType(edges, "Soft"),
     hard_edges |-> EdgesOfType(edges, "Hard")]

\* the dict build_dependency_graph returns
Graph ==
    [root_object |-> root_object, root_package |-> root_package,
     nodes |-> nodes, edges |-> edges, parents |-> parents,
     edge_by_child |-> edge_by_child, truncated |-> truncated,
     stats |-> stats]

-----------------------------------------------------------------------------
(* Path explainer *)

RECURSIVE Reverse(_)
Reverse(seq) ==
    IF seq = <<>> THEN <<>> ELSE Append(Reverse(Tail(seq)), Head(seq))

HasFlag(flags, f) == \E i \in 1..Len(flags) : flags[i] = f

RECURSIVE ParentChain(_, _, _)
\* while chain[-1] != root and chain[-1] in parents: chain.append(...)
\* The walk is deterministic: once the chain is longer than the number of
\* keys of parents plus one, a package has repeated and the loop never ends
\* (diverges = TRUE).
ParentChain(par, root, chain) ==
    LET last == chain[Len(chain)]
    IN  IF last # root /\ last \in DOMAIN par
        THEN IF Len(chain) > Cardinality(DOMAIN par) + 1
             THEN [diverges |-> TRUE, chain |-> chain]
             ELSE ParentChain(par, root, Append(chain, par[last]))
        ELSE [diverges |-> FALSE, chain |-> chain]

\* variant: the chain is left in target-to-root order
OrderChainUnreversed(chain) == chain

\* chain.reverse()
OrderChain(chain) == Reverse(chain)

\* variant: the step does not look the edge up
StepOfUnknown(g, pkg) == [package |-> pkg, reason |-> "Unknown", flags |-> <<>>]

\* steps for chain[1:]: reason and flags of edge_by_child.get(pkg, {})
StepOf(g, pkg) ==
    IF pkg \in DOMAIN g.edge_by_child
    THEN [package |-> pkg, reason |-> g.edge_by_child[pkg].reason,
          flags |-> g.edge_by_child[pkg].flags]
    ELSE [package |-> pkg, reason |-> "Unknown", flags |-> <<>>]

explain_path(g, target_package) ==
    LET tgt == object_path_to_package_name(target_package)
    IN  IF tgt \notin DOMAIN g.nodes
        THEN [diverges |-> FALSE, steps |-> <<>>]
        ELSE LET walk == ParentChain(g.parents, g.root_package, <<tgt>>)
                 chain == OrderChain(walk.chain)
             IN  [diverges |-> walk.diverges,
                  steps |-> [i \in 1..Len(chain) |->
                        IF i = 1
                        THEN [package |-> chain[1], reason |-> "ROOT", flags |-> <<>>]
                        ELSE StepOf(g, chain[i])]]

-----------------------------------------------------------------------------
(* Policy engine *)

PackagesOf(path) == [i \in 1..Len(path) |-> path[i].package]

ViolationOf(g, edge) ==
    [policy_id |-> "NO_EDITOR_DEPS",
     severity |-> "warning",
     message |-> "Editor-only / dev content appears in the runtime dependency graph. This may cause cook or shipping issues.",
     violating_package |-> edge.to,
     example_path |-> PackagesOf(explain_path(g, edge.to).steps)]

\* variant: the policy keys on the suspicious flag
IsPolicyEdgeSuspicious(edge) == HasFlag(edge.flags, "suspicious")

\* if "editor_only" not in edge["flags"]: continue
IsPolicyEdge(edge) == HasFlag(edge.flags, "editor_only")

RECURSIVE Collect(_, _)
\* first loop of evaluate_policies: one violation per flagged edge
Collect(g, es) ==
    IF es = <<>> THEN <<>>
    ELSE IF IsPolicyEdge(Head(es))
         THEN <<ViolationOf(g, Head(es))>> \o Collect(g, Tail(es))
         ELSE Collect(g, Tail(es))

\* variant: the seen set is never consulted
SeenKeyNever(seen, v) == FALSE

\* if key in seen: continue
SeenKey(seen, v) == <<v.policy_id, v.violating_package>> \in seen

RECURSIVE Dedupe(_, _)
\* second loop of evaluate_policies
Dedupe(vs, seen) ==
    IF vs = <<>> THEN <<>>
    ELSE IF SeenKey(seen, Head(vs))
         THEN Dedupe(Tail(vs), seen)
         ELSE <<Head(vs)>> \o
              Dedupe(Tail(vs),
                     seen \cup {<<Head(vs).policy_id, Head(vs).violating_package>>})

evaluate_policies(root_pkg, g) == Dedupe(Collect(g, g.edges), {})

\* evaluate_policies returns only if every explain_path call it makes does
PolicyDiverges(g) ==
    \E i \in 1..Len(g.edges) :
        IsPolicyEdge(g.edges[i]) /\ explain_path(g, g.edges[i].to).diverges

-----------------------------------------------------------------------------
(* Operations on the returned graph *)

\* targets handed to explain_path: package names and an object path
ExplainTargets == Packages \cup {GameB \o <<".", "B">>}

Explain ==
    /\ pc = "returned"
    /\ op = "none"
    /\ \E t \in ExplainTargets :
        /\ target' = t
        /\ LET r == explain_path(Graph, t)
           IN  IF r.diverges
               THEN op' = "explain_hangs" /\ steps' = steps
               ELSE op' = "explained" /\ steps' = r.steps
    /\ UNCHANGED <<violations, stack, tree>>
    /\ UNCHANGED graphVars
    /\ UNCHANGED callerVars

Evaluate ==
    /\ pc = "returned"
    /\ op = "none"
    /\ IF PolicyDiverges(Graph)
       THEN op' = "evaluate_hangs" /\ violations' = violations
       ELSE op' = "evaluated" /\ violations' = evaluate_policies(root_package, Graph)
    /\ UNCHANGED <<target, steps, stack, tree>>
    /\ UNCHANGED graphVars
    /\ UNCHANGED callerVars

-----------------------------------------------------------------------------
(* Tree projector: build_node as an explicit call stack *)

RECURSIVE ChildrenOf(_, _)
\* children_map.get(pkg, []): targets of the edges from pkg, in edge order
ChildrenOf(es, pkg) ==
    IF es = <<>> THEN <<>>
    ELSE IF Head(es).from = pkg
         THEN <<Head(es).to>> \o ChildrenOf(Tail(es), pkg)
         ELSE ChildrenOf(Tail(es), pkg)

\* edge_lookup[(from, to)]: the last edge recorded for the pair
EdgeLookup(es, from, to) ==
    LET idx == { i \in 1..Len(es) : es[i].from = from /\ es[i].to = to }
    IN  es[CHOOSE i \in idx : \A j \in idx : j <= i]

\* the dict build_node(pkg, depth) starts from, and its loop position
Frame(pkg, d) ==
    [node |-> [package |-> pkg,
               children |-> <<>>,
               reason |-> IF d = 0 THEN "ROOT" ELSE "",
               flags |-> nodes[pkg].flags,
               depth |-> d],
     i |-> 1]

\* build_tree_hierarchy(graph) is called on a returned graph: by a caller of
\* its own, or by analyze_selected_tree once analyze_selected has returned
TreeStart ==
    /\ pc = "returned"
    /\ op = "none"
    /\ entry \in {"direct", "tree"}
    /\ op' = "tree"
    /\ stack' = <<Frame(root_package, 0)>>
    /\ UNCHANGED <<target, steps, violations, tree>>
    /\ UNCHANGED graphVars
    /\ UNCHANGED callerVars

\* build_node(child, depth + 1) is called for the next child of the top frame
TreeCall ==
    /\ op = "tree"
    /\ LET top == stack[Len(stack)]
           kids == ChildrenOf(edges, top.node.package)
       IN  /\ top.i <= Len(kids)
           /\ IF Len(stack) >= RecursionLimit
              THEN op' = "RecursionError" /\ stack' = stack
              ELSE op' = op /\ stack' = Append(stack, Frame(kids[top.i], top.node.depth + 1))
    /\ UNCHANGED <<target, steps, violations, tree>>
    /\ UNCHANGED graphVars
    /\ UNCHANGED callerVars

\* build_node returns its node; the caller appends child_node and moves on
TreeReturn ==
    /\ op = "tree"
    /\ LET n == Len(stack)
           top == stack[n]
           kids == ChildrenOf(edges, top.node.package)
       IN  /\ top.i > Len(kids)
           /\ IF n = 1
              THEN /\ tree' = top.node
                   /\ stack' = <<>>
                   /\ op' = "tree_done"
              ELSE LET par == stack[n - 1]
                       child == ChildrenOf(edges, par.node.package)[par.i]
                       edge == EdgeLookup(edges, par.node.package, child)
                       child_node == [package |-> child,
                                      children |-> top.node.children,
                                      reason |-> edge.reason,
                                      flags |-> edge.flags,
                                      depth |-> par.node.depth + 1]
                       par2 == [node |-> [par.node EXCEPT
                                    !.children = Append(@, child_node)],
                                i |-> par.i + 1]
                   IN  /\ stack' = Append(SubSeq(stack, 1, n - 2), par2)
                       /\ tree' = tree
                       /\ op' = op
    /\ UNCHANGED <<target, steps, violations>>
    /\ UNCHANGED graphVars
    /\ UNCHANGED callerVars

TreeNext == TreeStart \/ TreeCall \/ TreeReturn

Next == BuildNext \/ Explain \/ Evaluate \/ TreeNext

Spec == Init /\ [][Next]_vars

\* build_dependency_graph alone, as sequential code: while a step of it can
\* be taken, the step is taken.
FairSpec == Init /\ [][BuildNext]_vars /\ WF_vars(BuildNext)

-----------------------------------------------------------------------------
(* explain_path on any Graph value *)

\* explain_path takes the graph as an argument: a dict with nodes, parents,
\* edge_by_child and root_package, whoever built it. The values tried: every
\* node set, root and parents map over three packages.
GraphPackages == {GameA, GameB, TestC}

PartialMaps(U) == UNION { [D -> U] : D \in SUBSET U }

GraphValue(root, ns, par) ==
    /\ registry = FullProject(GraphPackages)
    /\ answered = <<>>
    /\ root_object = root \o <<".">> \o LastSegment(root)
    /\ root_package = root
    /\ max_depth = 0
    /\ max_nodes = MAX_DEFAULT_NODES
    /\ nodes = [p \in ns |-> ensure_node(<<>>, p)[p]]
    /\ edges = <<>>
    /\ parents = par
    /\ edge_by_child = <<>>
    /\ truncated = FALSE
    /\ visited = ns
    /\ queue = <<>>
    /\ current = <<>>
    /\ depth = 0
    /\ hard = <<>>
    /\ soft = <<>>
    /\ deps = <<>>
    /\ pc = "returned"
    /\ op = "none"
    /\ target = <<>>
    /\ steps = <<>>
    /\ violations = <<>>
    /\ stack = <<>>
    /\ tree = <<>>
    /\ NoCaller

AnyGraph ==
    \E root \in GraphPackages, ns \in SUBSET GraphPackages,
       par \in PartialMaps(GraphPackages) :
        GraphValue(root, ns, par)

ExplainSpec == AnyGraph /\ [][Explain]_vars

-----------------------------------------------------------------------------
(* The path normalizer alone *)

\* no call of build_dependency_graph has been made
NotCalled(reg) ==
    /\ registry = reg
    /\ answered = <<>>
    /\ root_object = <<>>
    /\ root_package = <<>>
    /\ max_depth = 0
    /\ max_nodes = 0
    /\ nodes = <<>>
    /\ edges = <<>>
    /\ parents = <<>>
    /\ edge_by_child = <<>>
    /\ truncated = FALSE
    /\ visited = {}
    /\ queue = <<>>
    /\ current = <<>>
    /\ depth = 0
    /\ hard = <<>>
    /\ soft = <<>>
    /\ deps = <<>>
    /\ pc = "not_called"
    /\ op = "none"
    /\ target = <<>>
    /\ steps = <<>>
    /\ violations = <<>>
    /\ stack = <<>>
    /\ tree = <<>>

\* characters of the raw paths: a letter, the separators, the quote, a space
PathAlphabet == {"a", "/", ".", "'", " "}

RawPaths == UNION { [1..n -> PathAlphabet] : n \in 0..MaxRawLen }

NormInit ==
    \E r \in RawPaths :
        /\ NotCalled(ScenarioProject)
        /\ selected = <<>>
        /\ entry = "direct"
        /\ findings = <<>>
        /\ result = <<>>
        /\ report = <<>>
        /\ unused_limit = 0
        /\ raw_path = r
        /\ normalized = <<>>

\* asset_path_to_object_path applied to the raw path, then to its own result
\* (as object_path_to_package_name(root_object) does in the builder)
Normalize ==
    /\ Len(normalized) < 2
    /\ normalized' = Append(normalized,
            asset_path_to_object_path(
                IF normalized = <<>> THEN raw_path ELSE normalized[Len(normalized)]))
    /\ UNCHANGED <<selected, entry, findings, result, report, unused_limit,
                   raw_path>>
    /\ UNCHANGED graphVars
    /\ UNCHANGED postVars

NormSpec == NormInit /\ [][Normalize]_vars

-----------------------------------------------------------------------------
(* Entry points: adr_entry.analyze_selected and analyze_selected_tree,      *)
(* preflight_core.run_preflight and check_dependency_policies               *)

\* what the Content Browser selection can hold
Selections ==
    { <<>>,
      <<ObjectPathOf(GameA)>>,
      <<ObjectPathOf(TestC), ObjectPathOf(GameA), ObjectPathOf(GameB),
        ObjectPathOf(Bar)>> }

\* the depth argument of the entry points
EntryDepths == {1, DEFAULT_DEPTH}

\* a variable no call has assigned yet
NotReturned == [k \in {} |-> k]

\* None if nothing is selected, else the path of the first selected asset
\* (None is the empty path here: `not root_obj` holds for both)
get_selected_asset_object_path(sel) == IF sel = <<>> THEN <<>> ELSE sel[1]

\* variant: the result of the selection query is not tested
NoRootObjectNever(root_obj) == FALSE

\* if not root_obj
NoRootObject(root_obj) == root_obj = <<>>

\* variant: the selection is not tested
NoSelectionNever(sel) == FALSE

\* if not selected
NoSelection(sel) == sel = <<>>

\* the call build_dependency_graph(root, md, mn), up to the loop head
BeginBuild(root, md, mn) ==
    /\ root_object' = asset_path_to_object_path(root)
    /\ root_package' = object_path_to_package_name(root_object')
    /\ max_depth' = md
    /\ max_nodes' = mn
    /\ nodes' = ensure_node(<<>>, root_package')
    /\ edges' = <<>>
    /\ parents' = <<>>
    /\ edge_by_child' = <<>>
    /\ truncated' = FALSE
    /\ visited' = {root_package'}
    /\ queue' = << <<root_package', 0>> >>
    /\ pc' = "loop"
    /\ answered' = <<>>
    /\ UNCHANGED <<current, depth, hard, soft, deps, registry>>

\* graph["nodes"] in insertion order: the root, then the edge targets
NodeOrder(g) == <<g.root_package>> \o [i \in 1..Len(g.edges) |-> g.edges[i].to]

\* adr_report: the first node flagged editor_only (<<>>: there is none)
ExamplePackage(g) ==
    LET order == NodeOrder(g)
        idx == { i \in 1..Len(order) : HasFlag(g.nodes[order[i]].flags, "editor_only") }
    IN  IF idx = {} THEN <<>> ELSE order[Min(idx)]

\* adr_report.generate_summary: the content of the markdown text, by section
generate_summary(root_pkg, g, vs) ==
    [root_asset |-> g.root_package,
     summary |-> g.stats,
     policy_violations |-> vs,
     example_path |-> IF ExamplePackage(g) = <<>> THEN <<>>
                      ELSE explain_path(g, ExamplePackage(g)).steps]

\* the explain_path call of generate_summary does not return
SummaryDiverges(g) ==
    ExamplePackage(g) # <<>> /\ explain_path(g, ExamplePackage(g)).diverges

AnalyzeSelected ==
    /\ entry = "idle"
    /\ pc = "not_called"
    /\ \E d \in EntryDepths :
        LET root_obj == get_selected_asset_object_path(selected)
        IN  IF NoRootObject(root_obj)
            THEN /\ result' = [error |-> "No asset selected in Content Browser"]
                 /\ entry' = "idle"
                 /\ UNCHANGED graphVars
            ELSE /\ BeginBuild(root_obj, d, MAX_DEFAULT_NODES)
                 /\ entry' = "analyze_selected"
                 /\ result' = result
    /\ UNCHANGED <<selected, findings, report, unused_limit, raw_path,
                   normalized>>
    /\ UNCHANGED postVars

\* analyze_selected_tree(depth) up to the loop head of the build its call of
\* analyze_selected starts; an error result is returned as it is
AnalyzeSelectedTree ==
    /\ entry = "idle"
    /\ pc = "not_called"
    /\ \E d \in EntryDepths :
        LET root_obj == get_selected_asset_object_path(selected)
        IN  IF NoRootObject(root_obj)
            THEN /\ result' = [error |-> "No asset selected in Content Browser"]
                 /\ entry' = "idle"
                 /\ UNCHANGED graphVars
            ELSE /\ BeginBuild(root_obj, d, MAX_DEFAULT_NODES)
                 /\ entry' = "analyze_selected_tree"
                 /\ result' = result
    /\ UNCHANGED <<selected, findings, report, unused_limit, raw_path,
                   normalized>>
    /\ UNCHANGED postVars

\* build_dependency_graph has returned (or raised): the rest of
\* analyze_selected; called by analyze_selected_tree, its result goes on to
\* build_tree_hierarchy (entry = "tree")
AnalyzeReturn ==
    /\ entry \in {"analyze_selected", "analyze_selected_tree"}
    /\ pc \in {"returned", "raised"}
    /\ IF pc = "raised"
       THEN entry' = "raised" /\ UNCHANGED <<violations, result>>
       ELSE IF PolicyDiverges(Graph) \/ SummaryDiverges(Graph)
       THEN entry' = "hangs" /\ UNCHANGED <<violations, result>>
       ELSE /\ violations' = evaluate_policies(root_package, Graph)
            /\ result' = [root_object |-> get_selected_asset_object_path(selected),
                          root_package |-> root_package,
                          graph |-> Graph,
                          violations |-> violations',
                          report |-> generate_summary(root_package, Graph, violations')]
            /\ entry' = IF entry = "analyze_selected" THEN "idle" ELSE "tree"
    /\ UNCHANGED <<selected, findings, report, unused_limit, raw_path,
                   normalized>>
    /\ UNCHANGED <<op, target, steps, stack, tree>>
    /\ UNCHANGED graphVars

\* build_tree_hierarchy has returned to analyze_selected_tree, which stores
\* the tree in the result and returns it; a RecursionError reaches the caller
AnalyzeTreeReturn ==
    /\ entry = "tree"
    /\ op \in {"tree_done", "RecursionError"}
    /\ IF op = "RecursionError"
       THEN entry' = "raised" /\ result' = NotReturned
       ELSE /\ result' = [root_object |-> result.root_object,
                          root_package |-> result.root_package,
                          graph |-> result.graph,
                          violations |-> result.violations,
                          report |-> result.report,
                          tree |-> tree]
            /\ entry' = "idle"
    /\ UNCHANGED <<selected, findings, report, unused_limit, raw_path,
                   normalized>>
    /\ UNCHANGED postVars
    /\ UNCHANGED graphVars

NAMING_RULES ==
    ("Material" :> <<"M", "_">>)
    @@ ("MaterialInstanceConstant" :> <<"M", "I", "_">>)
    @@ ("Texture2D" :> <<"T", "_">>)
    @@ ("Blueprint" :> <<"B", "P", "_">>)
    @@ ("WidgetBlueprint" :> <<"W", "B", "P", "_">>)
    @@ ("StaticMesh" :> <<"S", "M", "_">>)
    @@ ("SkeletalMesh" :> <<"S", "K", "_">>)

\* s.split(".", 1)[1] if "." in s
_asset_name_from_object_path(object_path) ==
    IF HasChar(object_path, ".")
    THEN SubSeq(object_path, Find(object_path, ".") + 1, Len(object_path))
    ELSE object_path

RECURSIVE Text(_)
\* the characters of s as one string
Text(s) == IF s = <<>> THEN "" ELSE Head(s) \o Text(Tail(s))

\* the body of the loop of check_naming_for_assets: the findings for one
\* selected asset
NamingFindings(obj_path) ==
    LET ad == find_asset_data(obj_path)
        class_name == IF ad.has_class THEN ad.class ELSE "Unknown"
    IN  IF ~ad.found
        THEN << [severity |-> "warning", code |-> "NAMING_ASSET_DATA_MISSING",
                 hint |-> "Could not read asset data for selected asset.",
                 asset |-> obj_path] >>
        ELSE IF class_name \notin DOMAIN NAMING_RULES THEN <<>>
        ELSE IF ~StartsWith(_asset_name_from_object_path(obj_path), NAMING_RULES[class_name])
        THEN << [severity |-> "warning", code |-> "NAMING_PREFIX_MISMATCH",
                 hint |-> "Expected prefix '" \o Text(NAMING_RULES[class_name])
                          \o "' for class '" \o class_name \o "'.",
                 asset |-> obj_path] >>
        ELSE <<>>

RECURSIVE check_naming_for_assets(_)
check_naming_for_assets(object_paths) ==
    IF object_paths = <<>> THEN <<>>
    ELSE NamingFindings(Head(object_paths)) \o check_naming_for_assets(Tail(object_paths))

\* a level under /Game, listed with its file suffix
GameLevel == <<"/", "G", "a", "m", "e", "/", "L", ".", "U", "M", "A", "P">>

\* the object paths the registry lists under /Game
GameAssetList == <<ObjectPathOf(GameA), GameLevel, ObjectPathOf(GameB)>>

\* _list_game_assets(limit): assets[:limit], for a limit that is not negative
_list_game_assets(limit) ==
    SubSeq(GameAssetList, 1, Min({limit, Len(GameAssetList)}))

\* obj_path.endswith(".umap") or obj_path.lower().endswith(".umap")
IsMap(obj_path) ==
    \/ EndsWith(obj_path, <<".", "u", "m", "a", "p">>)
    \/ EndsWith(Lower(obj_path), <<".", "u", "m", "a", "p">>)

RECURSIVE UnusedOf(_, _)
\* the loop of check_unused_assets: a finding for every listed asset that is
\* no map and has no referencers (noref); an asset whose query raises is
\* skipped like one in use
UnusedOf(assets, noref) ==
    IF assets = <<>> THEN <<>>
    ELSE (IF ~IsMap(Head(assets)) /\ Head(assets) \in noref
          THEN << [severity |-> "info", code |-> "UNUSED_POSSIBLE",
                   hint |-> "No package referencers found (heuristic). Verify before deletion.",
                   asset |-> Head(assets)] >>
          ELSE <<>>) \o UnusedOf(Tail(assets), noref)

\* check_unused_assets(limit), noref being the listed assets for which the
\* referencer query answers with none
check_unused_assets(limit, noref) ==
    LET fs == UnusedOf(_list_game_assets(limit), noref)
    IN  IF Len(fs) > 50
        THEN SubSeq(fs, 1, 50) \o
             << [severity |-> "info", code |-> "UNUSED_TRUNCATED",
                 hint |-> "Unused scan results truncated for readability.",
                 asset |-> <<>>] >>
        ELSE fs

\* what check_unused_assets(limit) can return
UnusedScans(limit) ==
    { check_unused_assets(limit, noref) :
        noref \in SUBSET { GameAssetList[i] : i \in 1..Len(GameAssetList) } }

\* the limit of run_preflight.py
UNUSED_LIMIT == 2000

\* the unused_limit argument of run_preflight
UnusedLimits == {1, UNUSED_LIMIT, DEFAULT_UNUSED_SCAN_LIMIT}

\* findings of check_dependency_policies
AdrFindings(vs) ==
    [i \in 1..Len(vs) |->
        [severity |-> IF vs[i].severity = "warning" THEN "warning" ELSE "error",
         code |-> vs[i].policy_id,
         hint |-> vs[i].message,
         asset |-> vs[i].violating_package]]

\* stats of check_dependency_policies
AdrStats ==
    [adr_nodes |-> stats.node_count,
     adr_edges |-> stats.edge_count,
     adr_editor_only_suspected |-> stats.editor_only_suspected,
     adr_truncated |-> truncated]

StatusOf(fs) ==
    IF \E i \in 1..Len(fs) : fs[i].severity = "error" THEN "fail"
    ELSE IF \E i \in 1..Len(fs) : fs[i].severity = "warning" THEN "warn"
    ELSE "pass"

\* sum(1 for f in unused_findings if f.code == "UNUSED_POSSIBLE")
UnusedFlagged(unused) ==
    Cardinality({ i \in 1..Len(unused) : unused[i].code = "UNUSED_POSSIBLE" })

\* the PreflightReport that run_preflight returns (without its clock fields)
PreflightReport(fs, root, st) ==
    [status |-> StatusOf(fs), root_asset |-> root, findings |-> fs, stats |-> st]

RunPreflight ==
    /\ entry = "idle"
    /\ pc = "not_called"
    /\ \E d \in {DEFAULT_MAX_DEPTH} \cup EntryDepths, ul \in UnusedLimits :
        LET root == IF selected # <<>> THEN selected[1] ELSE <<>>
        IN  IF NoSelection(selected)
            THEN \E unused \in UnusedScans(ul) :
                 /\ findings' =
                        << [severity |-> "error", code |-> "NO_SELECTION",
                            hint |-> "Select at least one asset in the Content Browser before running preflight.",
                            asset |-> <<>>] >> \o unused
                 /\ report' = PreflightReport(findings', root,
                                [unused_scanned_limit |-> ul,
                                 unused_flagged_count |-> UnusedFlagged(unused)])
                 /\ entry' = "idle"
                 /\ unused_limit' = ul
                 /\ UNCHANGED graphVars
            ELSE /\ findings' = check_naming_for_assets(selected)
                 /\ BeginBuild(root, d, DEFAULT_MAX_NODES)
                 /\ entry' = "run_preflight"
                 /\ unused_limit' = ul
                 /\ report' = report
    /\ UNCHANGED <<selected, result, raw_path, normalized>>
    /\ UNCHANGED postVars

\* build_dependency_graph has returned (or raised) inside
\* check_dependency_policies: the rest of run_preflight
PreflightReturn ==
    /\ entry = "run_preflight"
    /\ pc \in {"returned", "raised"}
    /\ IF pc = "raised"
       THEN entry' = "raised" /\ UNCHANGED <<violations, findings, report>>
       ELSE IF PolicyDiverges(Graph)
       THEN entry' = "hangs" /\ UNCHANGED <<violations, findings, report>>
       ELSE \E unused \in UnusedScans(unused_limit) :
            /\ violations' = evaluate_policies(root_package, Graph)
            /\ findings' = findings \o AdrFindings(violations') \o unused
            /\ report' = PreflightReport(findings', selected[1],
                            [selected_count |-> Len(selected),
                             adr_nodes |-> AdrStats.adr_nodes,
                             adr_edges |-> AdrStats.adr_edges,
                             adr_editor_only_suspected |->
                                 AdrStats.adr_editor_only_suspected,
                             adr_truncated |-> AdrStats.adr_truncated,
                             unused_scanned_limit |-> unused_limit,
                             unused_flagged_count |-> UnusedFlagged(unused)])
            /\ entry' = "idle"
    /\ UNCHANGED <<selected, result, unused_limit, raw_path, normalized>>
    /\ UNCHANGED <<op, target, steps, stack, tree>>
    /\ UNCHANGED graphVars

\* the node caps a caller of check_dependency_policies passes
PolicyNodeCaps == (1..MaxNodesBound) \cup {DEFAULT_MAX_NODES}

\* check_dependency_policies(root_object_path, max_depth, max_nodes) called
\* on its own, for one of the selected assets
CheckDependencyPolicies ==
    /\ entry = "idle"
    /\ pc = "not_called"
    /\ \E i \in 1..Len(selected), d \in {DEFAULT_MAX_DEPTH} \cup EntryDepths,
          mn \in PolicyNodeCaps :
        /\ selected[i] \in {ObjectPathOf(p) : p \in DOMAIN registry}
        /\ BeginBuild(selected[i], d, mn)
    /\ entry' = "check_dependency_policies"
    /\ UNCHANGED <<selected, findings, result, report, unused_limit, raw_path,
                   normalized>>
    /\ UNCHANGED postVars

\* build_dependency_graph has returned (or raised): the rest of
\* check_dependency_policies, which returns (findings, stats)
PoliciesReturn ==
    /\ entry = "check_dependency_policies"
    /\ pc \in {"returned", "raised"}
    /\ IF pc = "raised"
       THEN entry' = "raised" /\ UNCHANGED <<violations, result>>
       ELSE IF PolicyDiverges(Graph)
       THEN entry' = "hangs" /\ UNCHANGED <<violations, result>>
       ELSE /\ violations' = evaluate_policies(root_package, Graph)
            /\ result' = [findings |-> AdrFindings(violations'),
                          stats |-> AdrStats]
            /\ entry' = "idle"
    /\ UNCHANGED <<selected, findings, report, unused_limit, raw_path,
                   normalized>>
    /\ UNCHANGED <<op, target, steps, stack, tree>>
    /\ UNCHANGED graphVars

EntryInit ==
    \E sel \in Selections :
        /\ NotCalled(DiamondProject)
        /\ selected = sel
        /\ entry = "idle"
        /\ findings = <<>>
        /\ result = NotReturned
        /\ report = NotReturned
        /\ unused_limit = 0
        /\ raw_path = <<>>
        /\ normalized = <<>>

\* The entry points and the build they start
EntryNext ==
    \/ AnalyzeSelected
    \/ AnalyzeSelectedTree
    \/ AnalyzeReturn
    \/ TreeNext
    \/ AnalyzeTreeReturn
    \/ RunPreflight
    \/ PreflightReturn
    \/ CheckDependencyPolicies
    \/ PoliciesReturn
    \/ BuildNext

EntrySpec == EntryInit /\ [][EntryNext]_vars

-----------------------------------------------------------------------------
(* Properties *)

NodeSet == DOMAIN nodes
EdgeIdx == 1..Len(edges)
EdgesInto(n) == { i \in EdgeIdx : edges[i].to = n }

\* C1: in every state of the traversal the number of nodes is at most
\* max_nodes.
C1_NodeCountWithinMaxNodes == Cardinality(NodeSet) <= max_nodes

StackPackages == [i \in 1..Len(stack) |-> stack[i].node.package]

\* C2: the tree projection never runs out of call stack, and no package is
\* expanded again while it is already on the current root-to-node path.
C2_TreeCycleGuarded ==
    /\ op # "RecursionError"
    /\ \A i, j \in 1..Len(stack) : i # j => StackPackages[i] # StackPackages[j]

\* C3: a failing dependency lookup never aborts the build: the traversal is
\* never left through an exception.
C3_LookupFailureNonFatal == pc # "raised"

\* C4: the BFS loop is eventually left, for every dependency source, max_depth
\* and max_nodes.
C4_BFSTerminates == <>(pc \in {"returned", "raised"})

\* a cyclic source was traversed to the end: an edge leads back to the root
C4_Witness ==
    /\ pc = "returned"
    /\ ~truncated
    /\ queue = <<>>
    /\ \E i \in EdgeIdx : edges[i].to = root_package

RECURSIVE ParentAt(_, _)
\* the k-th package on the walk along parents from p (<<>> once it has ended)
ParentAt(p, k) ==
    IF k = 0 THEN p
    ELSE LET q == ParentAt(p, k - 1)
         IN  IF q \in DOMAIN parents THEN parents[q] ELSE <<>>

\* C5: parents is acyclic, and the root has no parents entry.
C5_ParentsAcyclic ==
    /\ root_package \notin DOMAIN parents
    /\ \A p \in DOMAIN parents :
        \A k \in 1..Cardinality(DOMAIN parents) : ParentAt(p, k) # p

\* C6: for every non-root node n, parents[n] is the source of the first edge
\* into n in edge-list order, and no edge into n has a smaller depth.
C6_FirstParentMinDepth ==
    \A n \in NodeSet \ {root_package} :
        /\ n \in DOMAIN parents
        /\ EdgesInto(n) # {}
        /\ parents[n] = edges[Min(EdgesInto(n))].from
        /\ \A j \in EdgesInto(n) : edges[Min(EdgesInto(n))].depth <= edges[j].depth

\* a node reached again at a greater depth, and one reached twice at one depth
C6_Witness ==
    /\ pc = "returned"
    /\ \E n \in NodeSet \ {root_package} : \E i, j \in EdgesInto(n) :
            i < j /\ edges[i].depth < edges[j].depth
    /\ \E n \in NodeSet \ {root_package} : \E i, j \in EdgesInto(n) :
            i < j /\ edges[i].depth = edges[j].depth

\* the package a target of ExplainTargets names
NamedPackage(t) == IF t \in Packages THEN t ELSE GameB

\* C7: explain_path returns, for a target in nodes, a non-empty sequence from
\* the root (reason ROOT, no flags) to the target, and for any other target
\* the empty sequence.
C7_ExplainRootToTarget ==
    /\ op # "explain_hangs"
    /\ op = "explained" =>
        IF NamedPackage(target) \in NodeSet
        THEN /\ steps # <<>>
             /\ steps[1] = [package |-> root_package, reason |-> "ROOT", flags |-> <<>>]
             /\ steps[Len(steps)].package = NamedPackage(target)
        ELSE steps = <<>>

\* a three-step explanation in a graph whose root has a parents entry
C7_Witness ==
    /\ op = "explained"
    /\ Len(steps) = 3
    /\ root_package \in DOMAIN parents

FlaggedInto(p) == { i \in EdgesInto(p) : HasFlag(edges[i].flags, "editor_only") }
VioIdx == 1..Len(violations)

\* C8: no two violations share (policy_id, violating_package), and the
\* violations are ordered by the first flagged edge into their package.
C8_DedupFirstOccurrence ==
    op = "evaluated" =>
        /\ \A i, j \in VioIdx : i # j =>
              <<violations[i].policy_id, violations[i].violating_package>>
                # <<violations[j].policy_id, violations[j].violating_package>>
        /\ \A i \in VioIdx : FlaggedInto(violations[i].violating_package) # {}
        /\ \A i, j \in VioIdx : i < j =>
              Min(FlaggedInto(violations[i].violating_package))
                < Min(FlaggedInto(violations[j].violating_package))

\* two violations, one of them for a package with two flagged edges into it
C8_Witness ==
    /\ op = "evaluated"
    /\ Len(violations) = 2
    /\ \E i \in VioIdx : Cardinality(FlaggedInto(violations[i].violating_package)) >= 2

\* C9: there is a NO_EDITOR_DEPS warning for p exactly if some edge into p is
\* flagged editor_only, and its example_path is the explain_path package
\* sequence: from the root to p along parents.
C9_ViolationIffEditorOnlyEdge ==
    /\ op # "evaluate_hangs"
    /\ op = "evaluated" =>
        /\ \A p \in Packages :
              (\E i \in VioIdx : violations[i].violating_package = p)
                <=> FlaggedInto(p) # {}
        /\ \A i \in VioIdx :
            LET v == violations[i]
                path == v.example_path
            IN  /\ v.policy_id = "NO_EDITOR_DEPS"
                /\ v.severity = "warning"
                /\ path = PackagesOf(explain_path(Graph, v.violating_package).steps)
                /\ path # <<>>
                /\ path[1] = root_package
                /\ path[Len(path)] = v.violating_package
                /\ \A k \in 2..Len(path) : parents[path[k]] = path[k - 1]

\* a violation two hops from the root, next to an edge that is not flagged
C9_Witness ==
    /\ op = "evaluated"
    /\ \E i \in VioIdx : Len(violations[i].example_path) = 3
    /\ \E i \in EdgeIdx : ~HasFlag(edges[i].flags, "editor_only")

\* C10: no edge has from = to.
C10_NoSelfEdges == \A i \in EdgeIdx : edges[i].from # edges[i].to

\* the source lists the package being expanded among its own dependencies,
\* after an edge of the same expansion was recorded
C10_Witness ==
    /\ pc = "for"
    /\ deps # <<>>
    /\ Head(deps).dep = current
    /\ edges # <<>>
    /\ edges[Len(edges)].from = current

InSeq(l, x) == \E i \in 1..Len(l) : l[i] = x
FirstIndex(l, x) == Min({ i \in 1..Len(l) : l[i] = x })

\* C11: in every state the edge list holds at most one edge for each ordered
\* pair (from, to).
C11_OneEdgePerPair ==
    \A i, j \in EdgeIdx :
        i # j => <<edges[i].from, edges[i].to>> # <<edges[j].from, edges[j].to>>

\* a lookup answered with one target in both lists, and that target already
\* has an edge to the package being expanded: the next edge closes a cycle
C11_Witness ==
    /\ pc = "for"
    /\ \E t \in NodeSet :
        /\ InSeq(hard, t) /\ InSeq(soft, t)
        /\ Cardinality({ k \in 1..Len(deps) : deps[k].dep = t }) = 1
        /\ \E i \in EdgeIdx : edges[i].from = t /\ edges[i].to = current

\* the state that follows a lookup: hard and soft are the lists it returned
\* a step that asks the source for the dependencies of a package
AfterLookup == DOMAIN answered' # DOMAIN answered

\* the deps dict of an expansion: one item per target of the two lists, Hard
\* exactly for the targets of the hard list, in hard-then-soft order
DepsHardThenSoft ==
    /\ \A k \in 1..Len(deps) : InSeq(hard \o soft, deps[k].dep)
    /\ \A i \in 1..Len(hard \o soft) :
          Cardinality({ k \in 1..Len(deps) : deps[k].dep = (hard \o soft)[i] }) = 1
    /\ \A k \in 1..Len(deps) :
          /\ deps[k].kind = "Hard" <=> InSeq(hard, deps[k].dep)
          /\ deps[k].kind = "Soft" <=> ~InSeq(hard, deps[k].dep)
    /\ \A i, j \in 1..Len(deps) : i < j =>
          FirstIndex(hard \o soft, deps[i].dep) < FirstIndex(hard \o soft, deps[j].dep)

\* a step that changes the edge list appends one edge, from the package being
\* expanded to the first remaining item of deps, with that item's kind
EdgeFromHeadOfDeps ==
    edges' # edges =>
        /\ pc = "for"
        /\ Len(edges') = Len(edges) + 1
        /\ SubSeq(edges', 1, Len(edges)) = edges
        /\ edges'[Len(edges')].from = current
        /\ edges'[Len(edges')].to = Head(deps).dep
        /\ edges'[Len(edges')].dep_type = Head(deps).kind

\* the items of deps are consumed in order, one per iteration
DepsConsumedInOrder == (pc = "for" /\ deps' # deps) => deps' = Tail(deps)

\* C12: a target in both lists of an expansion gets one edge, of dep_type
\* Hard; Soft is given only to a target absent from the hard list; and the
\* edges of one expansion are appended in hard-then-soft order.
C12_HardWinsHardThenSoft ==
    [][ /\ AfterLookup => DepsHardThenSoft'
        /\ EdgeFromHeadOfDeps
        /\ DepsConsumedInOrder ]_vars

\* after an expansion that recorded a Hard edge and then a Soft edge, a lookup
\* answers with one target in both lists: deps holds it once, as Hard
C12_Witness ==
    /\ pc = "for"
    /\ \E t \in NodeSet :
        /\ InSeq(hard, t) /\ InSeq(soft, t)
        /\ \E k \in 1..Len(deps) : deps[k] = [dep |-> t, kind |-> "Hard"]
    /\ \E i \in 1..(Len(edges) - 1) :
        /\ edges[i].from = edges[i + 1].from
        /\ edges[i].dep_type = "Hard"
        /\ edges[i + 1].dep_type = "Soft"

\* the source has dependencies to report for the root
RootHasDependency == registry[root_package] \ {root_package} # {}

\* C13: with max_nodes = 1 and max_depth >= 1 the returned graph has
\* node_count = 1, edge_count = 0 and truncated = true.
C13_MaxNodesOneTruncates ==
    (pc = "returned" /\ max_nodes = 1 /\ max_depth >= 1) =>
        /\ stats.node_count = 1
        /\ stats.edge_count = 0
        /\ truncated

\* such a build has returned, for a root that has dependencies
C13_Witness ==
    /\ pc = "returned"
    /\ max_nodes = 1
    /\ max_depth >= 1
    /\ RootHasDependency
    /\ current = root_package

\* C14: the root package is in nodes in every state; with max_depth = 0 the
\* returned graph has exactly the root node, no edges, and truncated = false.
C14_RootAlwaysNode ==
    /\ root_package \in NodeSet
    /\ (pc = "returned" /\ max_depth = 0) =>
            /\ NodeSet = {root_package}
            /\ edges = <<>>
            /\ ~truncated

\* a build with max_depth = 0 has returned although the node cap was already
\* met and the root has dependencies
C14_Witness ==
    /\ pc = "returned"
    /\ max_depth = 0
    /\ max_nodes = 1
    /\ RootHasDependency
    /\ queue = <<>>

\* C15: in the scenario (root Foo, Foo -hard-> Bar, Bar -soft-> Baz,
\* max_depth = 4, max_nodes = 400) the returned graph has 3 nodes and 2 edges
\* with the Baz node flagged editor_only, and evaluate_policies yields exactly
\* one NO_EDITOR_DEPS violation, whose example_path is [Foo, Bar, Baz].
C15_FooBarBazScenario ==
    (registry = ScenarioProject /\ root_package = Foo
        /\ max_depth = DEFAULT_DEPTH /\ max_nodes = MAX_DEFAULT_NODES) =>
        /\ pc # "raised"
        /\ pc = "returned" =>
              /\ stats.node_count = 3
              /\ stats.edge_count = 2
              /\ Baz \in NodeSet
              /\ HasFlag(nodes[Baz].flags, "editor_only")
        /\ op = "evaluated" =>
              /\ Len(violations) = 1
              /\ violations[1].policy_id = "NO_EDITOR_DEPS"
              /\ violations[1].example_path = <<Foo, Bar, Baz>>

\* the policies were evaluated on the graph of the scenario
C15_Witness ==
    /\ registry = ScenarioProject
    /\ root_package = Foo
    /\ op = "evaluated"
    /\ Len(edges) = 2
    /\ edges[1].dep_type = "Hard"
    /\ edges[2].dep_type = "Soft"

\* C16: explain_path ends with a result for every Graph value whose nodes
\* contain the target, a parents cycle that avoids the root included.
C16_ExplainTerminates ==
    NamedPackage(target) \in NodeSet => op # "explain_hangs"

\* C17: asset_path_to_object_path applied to its own result returns that
\* result, for every raw path; the empty path is returned unchanged.
C17_NormalizeIdempotent ==
    /\ (raw_path = <<>> /\ Len(normalized) >= 1) => normalized[1] = raw_path
    /\ Len(normalized) = 2 => normalized[2] = normalized[1]

\* C18: with nothing selected build_dependency_graph is never called;
\* analyze_selected returns an error result, and run_preflight returns a
\* report with status fail that holds a NO_SELECTION finding of severity error.
C18_NoSelectionNoTraversal ==
    selected = <<>> =>
        /\ pc = "not_called"
        /\ entry = "idle"
        /\ DOMAIN result # {} =>
              /\ DOMAIN result = {"error"}
              /\ result.error = "No asset selected in Content Browser"
        /\ DOMAIN report # {} =>
              /\ report.status = "fail"
              /\ \E i \in 1..Len(report.findings) :
                    /\ report.findings[i].code = "NO_SELECTION"
                    /\ report.findings[i].severity = "error"

\* both entry points have returned with nothing selected, the preflight after
\* an unused scan that reported assets
C18_Witness ==
    /\ selected = <<>>
    /\ DOMAIN result # {}
    /\ DOMAIN report # {}
    /\ Len(report.findings) >= 2

\* the packages of the model whose name contains an editor-only marker, and
\* the roots under /Game/
EditorOnlyPackages == {TestC, DebugD, Baz}
GameRoots == {GameA, GameB, Foo, Bar}

\* C19: every edge carries the reason and flags of the table: the base reason
\* of its kind, replaced by "Editor-only Suspected" with flag editor_only for
\* an editor-only target; suspicious exactly if the root is under /Game/ and
\* the target is editor-only; " (Transitive)" exactly if depth > 1; the reason
\* is never empty.
C19_ClassifyTable ==
    \A i \in EdgeIdx :
        LET e == edges[i]
            editor == e.to \in EditorOnlyPackages
            game == root_package \in GameRoots
            base == IF editor THEN "Editor-only Suspected"
                    ELSE IF e.dep_type = "Soft" THEN "Soft Reference (optional)"
                    ELSE "Hard Runtime Reference"
        IN  /\ e.dep_type \in {"Hard", "Soft"}
            /\ e.depth >= 1
            /\ e.reason # ""
            /\ e.reason = IF e.depth > 1 THEN base \o " (Transitive)" ELSE base
            /\ HasFlag(e.flags, "editor_only") <=> editor
            /\ HasFlag(e.flags, "suspicious") <=> (game /\ editor)
            /\ \A k \in 1..Len(e.flags) : e.flags[k] \in {"editor_only", "suspicious"}

\* one graph with a direct Soft edge, a transitive Hard edge and a transitive
\* edge to an editor-only target, from a root under /Game/
C19_Witness ==
    /\ root_package \in GameRoots
    /\ \E i \in EdgeIdx : edges[i].reason = "Soft Reference (optional)"
    /\ \E i \in EdgeIdx : edges[i].reason = "Hard Runtime Reference (Transitive)"
    /\ \E i \in EdgeIdx :
        /\ edges[i].reason = "Editor-only Suspected (Transitive)"
        /\ edges[i].flags = <<"editor_only", "suspicious">>

\* a step of the for loop meets a dependency that already has a parent
Rediscovery ==
    /\ pc = "for"
    /\ deps # <<>>
    /\ Head(deps).dep # current
    /\ Head(deps).dep \in DOMAIN parents

\* C20: parents and edge_by_child are write-once per child: a step never
\* changes or removes an entry, and the step that meets an already-parented
\* child appends an edge to it and leaves parents, edge_by_child, visited
\* and the queue unchanged.
C20_WriteOnceParents ==
    [][ /\ \A c \in DOMAIN parents :
              c \in DOMAIN parents' /\ parents'[c] = parents[c]
        /\ \A c \in DOMAIN edge_by_child :
              c \in DOMAIN edge_by_child' /\ edge_by_child'[c] = edge_by_child[c]
        /\ Rediscovery =>
              /\ Len(edges') = Len(edges) + 1
              /\ SubSeq(edges', 1, Len(edges)) = edges
              /\ edges'[Len(edges')].from = current
              /\ edges'[Len(edges')].to = Head(deps).dep
              /\ UNCHANGED <<parents, edge_by_child, visited, queue>>
      ]_vars

\* the last edge recorded goes to a child that another package had
\* discovered before: its entries still name the first discoverer
C20_Witness ==
    /\ edges # <<>>
    /\ LET last == edges[Len(edges)]
       IN  /\ last.to \in DOMAIN parents
           /\ last.to # root_package
           /\ parents[last.to] # last.from
           /\ edge_by_child[last.to] # last
           /\ edge_by_child[last.to].from = parents[last.to]
           /\ Min(EdgesInto(last.to)) < Len(edges)

\* the packages waiting in the queue
QueuedPackages == {queue[i][1] : i \in 1..Len(queue)}

\* packages whose dependencies have been asked for
Expanded == {edges[i].from : i \in EdgeIdx} \cup (IF pc = "for" THEN {current} ELSE {})

\* at the loop head (and throughout the for loop) visited is the key set of
\* nodes, every node maps to one Node record of its own package, and a
\* package waits in the queue at most once and never after it was expanded
OneNodePerPackage ==
    /\ pc \in {"loop", "for"} => visited = DOMAIN nodes
    /\ \A p \in DOMAIN nodes : nodes[p] = ensure_node(<<>>, p)[p]
    /\ \A i, j \in 1..Len(queue) : queue[i][1] = queue[j][1] => i = j
    /\ QueuedPackages \subseteq visited
    /\ QueuedPackages \cap Expanded = {}

\* a step never changes or removes a Node, never forgets a visited package,
\* enqueues only a package that was not visited before, and dequeues only
\* from the front
NodesWriteOnce ==
    /\ \A p \in DOMAIN nodes : p \in DOMAIN nodes' /\ nodes'[p] = nodes[p]
    /\ visited \subseteq visited'
    /\ \/ queue' = queue
       \/ queue # <<>> /\ queue' = Tail(queue)
       \/ /\ Len(queue') = Len(queue) + 1
          /\ SubSeq(queue', 1, Len(queue)) = queue
          /\ queue'[Len(queue')][1] \notin visited
          /\ queue'[Len(queue')][1] \in visited'

\* C21: during build_dependency_graph each package gets exactly one Node,
\* created when it is first referenced and never changed or removed, and
\* each package is enqueued and expanded at most once however many edges
\* point to it; at every loop head visited equals the key set of nodes.
C21_OneNodeOneVisit == []OneNodePerPackage /\ [][NodesWriteOnce]_vars

\* a package that two edges point to waits in the queue, once
C21_Witness ==
    /\ pc = "loop"
    /\ \E i \in 1..Len(queue) :
          /\ Cardinality(EdgesInto(queue[i][1])) >= 2
          /\ \A j \in 1..Len(queue) : queue[j][1] = queue[i][1] => j = i
          /\ queue[i][1] \in DOMAIN nodes

\* hops from p up to the root along parents, the walk ending at the root
\* (-1 when the walk does not come to the root)
Hops(p) ==
    IF p = root_package THEN 0
    ELSE LET ks == {k \in 1..Cardinality(DOMAIN nodes) :
                        ParentAt(p, k) = root_package}
         IN  IF ks = {} THEN -1 ELSE Min(ks)

\* C22: every recorded edge has both endpoints in nodes and a depth in
\* 1..max_depth that is one more than the depth at which its source was
\* dequeued, which is the hop distance of the source from the root along
\* first-parent links.
C22_EdgeDepthIsSourceHopsPlusOne ==
    /\ \A i \in EdgeIdx :
          /\ edges[i].from \in DOMAIN nodes
          /\ edges[i].to \in DOMAIN nodes
          /\ 1 <= edges[i].depth
          /\ edges[i].depth <= max_depth
          /\ edges[i].depth = Hops(edges[i].from) + 1
    /\ \A i \in 1..Len(queue) : queue[i][2] = Hops(queue[i][1])
    /\ pc = "for" => depth = Hops(current)

\* a finished build holds an edge at the depth bound whose source is not
\* the root, in a graph whose root has a parents entry
C22_Witness ==
    /\ pc = "returned"
    /\ root_package \in DOMAIN parents
    /\ \E i \in EdgeIdx :
          /\ edges[i].depth = max_depth
          /\ edges[i].depth >= 2
          /\ edges[i].from # root_package
          /\ parents[edges[i].from] = root_package
          /\ Hops(edges[i].from) = edges[i].depth - 1

\* what the source named for p, self-references left out
DependenciesOf(p) == IF p \in DOMAIN answered THEN answered[p] ELSE {}

RECURSIVE Within(_)
\* the packages at most k dependency hops from the root
Within(k) ==
    IF k = 0 THEN {root_package}
    ELSE LET near == Within(k - 1)
         IN  near \cup UNION {DependenciesOf(p) : p \in near}

\* C23: a build that returns with truncated = false is complete up to the
\* depth bound: every package fewer than max_depth hops from the root was
\* asked for its dependencies, nodes is the set of packages at most
\* max_depth hops from the root, and every non-self dependency of a package
\* fewer than max_depth hops from the root is an edge.
C23_CompleteUnlessTruncated ==
    (pc = "returned" /\ ~truncated) =>
        /\ max_depth > 0 => Within(max_depth - 1) \subseteq DOMAIN answered
        /\ DOMAIN nodes = Within(max_depth)
        /\ max_depth > 0 =>
              \A p \in Within(max_depth - 1) : \A d \in DependenciesOf(p) :
                  \E i \in EdgeIdx : edges[i].from = p /\ edges[i].to = d

\* an untruncated build that stopped at the depth bound: a package at the
\* bound was never asked, one nearer named a package it had no need to visit
C23_Witness ==
    /\ pc = "returned"
    /\ ~truncated
    /\ max_depth >= 2
    /\ DOMAIN answered # DOMAIN nodes
    /\ \E i \in EdgeIdx : edges[i].to = root_package
    /\ \E p \in DOMAIN answered \ {root_package} : DependenciesOf(p) # {}
    /\ DOMAIN nodes = Within(max_depth)

\* the explanation just returned is for a package of nodes other than the root
ExplainedNonRoot ==
    /\ op = "explained"
    /\ NamedPackage(target) \in NodeSet \ {root_package}

\* C24: for a non-root package p of nodes, explain_path returns a shortest
\* discovery path: consecutive steps (x, y) are an edge x -> y of the edge
\* list, the step for y carries the reason and flags of edge_by_child[y],
\* whose source is x = parents[y], no package repeats, and the number of
\* steps is edge_by_child[p].depth + 1.
C24_ExplainIsDiscoveryPath ==
    ExplainedNonRoot =>
        LET p == NamedPackage(target)
        IN  /\ p \in DOMAIN edge_by_child
            /\ Len(steps) = edge_by_child[p].depth + 1
            /\ \A i, j \in 1..Len(steps) :
                  steps[i].package = steps[j].package => i = j
            /\ \A i \in 1..(Len(steps) - 1) :
                  LET x == steps[i].package
                      y == steps[i + 1].package
                  IN  /\ \E k \in EdgeIdx : edges[k].from = x /\ edges[k].to = y
                      /\ y \in DOMAIN edge_by_child
                      /\ y \in DOMAIN parents
                      /\ parents[y] = x
                      /\ edge_by_child[y].from = x
                      /\ steps[i + 1].reason = edge_by_child[y].reason
                      /\ steps[i + 1].flags = edge_by_child[y].flags
            /\ \A k \in EdgesInto(p) : edges[k].depth + 1 >= Len(steps)

\* the explained package was found again by a deeper edge, and the root
\* has a parents entry: the explanation is the shorter way and ends a
\* flagged step
C24_Witness ==
    /\ ExplainedNonRoot
    /\ Len(steps) >= 2
    /\ root_package \in DOMAIN parents
    /\ \E k \in EdgesInto(NamedPackage(target)) : edges[k].depth >= Len(steps)
    /\ steps[Len(steps)].flags # <<>>

====
